---------------------------- MODULE Spec2Model ----------------------------
(***************************************************************************)
(* Model of the thumbor URL generator scripts                              *)
(*   src/thumbor-url-generator.py  (script "generator")                    *)
(*   src/turl.py                   (script "turl")                         *)
(*                                                                         *)
(* A Python str is a sequence of one-character strings.  A Python value is *)
(* a record [t, n, s]: t is the Python type ("none", "int", "bool", "str", *)
(* or "TypeError" for the exception an expression raised), n the number of *)
(* an int or bool, s the characters of a str.                              *)
(***************************************************************************)
EXTENDS Integers, Sequences, FiniteSets, TLC

VARIABLES
    script,       \* which of the two scripts runs
    pc,           \* position of the run
    cli,          \* the command line: flags given and the positional image_url
    env,          \* the environment after load_dotenv
    envFileOk,    \* Path(env_file).exists()
    clipboardOk,  \* whether pyperclip.copy succeeds on this machine
    args,         \* the namespace parse_args returns
    opts,         \* width, height, smart, unsafe, cpy as resolved by __main__
    encoded,      \* what encode_url returned, None before it is called
    signCall,     \* the call made to crypto.generate, None before it is made
    generated,    \* the URL logged as "Generated URL"
    result,       \* the value the generator function returned
    clipboard,    \* the clipboard's content
    printed,      \* what the run printed on standard output
    error         \* the exception that ended the run, "" while there is none

vars == <<script, pc, cli, env, envFileOk, clipboardOk, args, opts, encoded,
          signCall, generated, result, clipboard, printed, error>>

---------------------------------------------------------------------------
(* Python values *)

NoneV == [t |-> "none", n |-> 0, s |-> <<>>]
IntV(i) == [t |-> "int", n |-> i, s |-> <<>>]
BoolV(b) == [t |-> "bool", n |-> IF b THEN 1 ELSE 0, s |-> <<>>]
StrV(str) == [t |-> "str", n |-> 0, s |-> str]
TypeErrorV == [t |-> "TypeError", n |-> 0, s |-> <<>>]

\* bool(v), as Python's conditionals take it
Truthy(v) ==
    CASE v.t = "none" -> FALSE
      [] v.t = "int" -> v.n # 0
      [] v.t = "bool" -> v.n # 0
      [] v.t = "str" -> v.s # <<>>
      [] OTHER -> FALSE

\* a + b on Python values: str + str concatenates, str + int raises TypeError
PyAdd(a, b) ==
    IF a.t = "str" /\ b.t = "str" THEN StrV(a.s \o b.s) ELSE TypeErrorV

\* x if x is not None else y
IfNotNone(x, y) == IF x # NoneV THEN x ELSE y

---------------------------------------------------------------------------
(* Characters: printable ASCII, code 32 (space) to 126 (~).  The double    *)
(* quote, the parentheses, the star, the backslash, the backtick: by name. *)

Ascii ==
    <<" ", "!", "DQUOTE", "#", "$", "%", "&", "'", "LPAREN", "RPAREN", "STAR", "+", ",", "-", ".", "/",
      "0", "1", "2", "3", "4", "5", "6", "7", "8", "9", ":", ";", "<", "=", ">", "?",
      "@", "A", "B", "C", "D", "E", "F", "G", "H", "I", "J", "K", "L", "M", "N", "O",
      "P", "Q", "R", "S", "T", "U", "V", "W", "X", "Y", "Z", "[", "BACKSLASH", "]", "^", "_",
      "BACKTICK", "a", "b", "c", "d", "e", "f", "g", "h", "i", "j", "k", "l", "m", "n", "o",
      "p", "q", "r", "s", "t", "u", "v", "w", "x", "y", "z", "{", "|", "}", "~">>

Ord(c) == 31 + (CHOOSE i \in 1..Len(Ascii) : Ascii[i] = c)
Chr(k) == Ascii[k - 31]

HexDigits == <<"0", "1", "2", "3", "4", "5", "6", "7", "8", "9", "A", "B", "C", "D", "E", "F">>
HexChar(k) == HexDigits[k + 1]
IsHex(c) == \E i \in 1..Len(HexDigits) : HexDigits[i] = c
HexVal(c) == (CHOOSE i \in 1..Len(HexDigits) : HexDigits[i] = c) - 1

\* urllib.parse: _ALWAYS_SAFE, the characters quote never escapes
AlwaysSafe ==
    { Ascii[i] : i \in 17..26 } \cup { Ascii[i] : i \in 34..59 }
        \cup { Ascii[i] : i \in 66..91 } \cup {"_", ".", "-", "~"}

\* what str.strip() removes
Whitespace == {" "}

RECURSIVE LStrip(_)
LStrip(str) ==
    IF str # <<>> /\ Head(str) \in Whitespace THEN LStrip(Tail(str)) ELSE str

RECURSIVE RStrip(_)
RStrip(str) ==
    IF str # <<>> /\ str[Len(str)] \in Whitespace
    THEN RStrip(SubSeq(str, 1, Len(str) - 1))
    ELSE str

\* str.strip()
Strip(str) == RStrip(LStrip(str))

---------------------------------------------------------------------------
(* encode_url *)

\* one character of parse.quote(s, safe): kept when safe, else %XX of its byte
QuoteChar(c, safe) ==
    IF c \in AlwaysSafe \cup safe
    THEN <<c>>
    ELSE <<"%", HexChar(Ord(c) \div 16), HexChar(Ord(c) % 16)>>

RECURSIVE QuoteWith(_, _)
QuoteWith(str, safe) ==
    IF str = <<>> THEN <<>> ELSE QuoteChar(Head(str), safe) \o QuoteWith(Tail(str), safe)

\* parse.quote_plus: a space becomes "+", nothing else is safe
RECURSIVE QuotePlus(_)
QuotePlus(str) ==
    IF str = <<>> THEN <<>>
    ELSE (IF Head(str) = " " THEN <<"+">> ELSE QuoteChar(Head(str), {})) \o QuotePlus(Tail(str))

\* parse.quote(in_url): safe defaults to "/"
Quote(str) == QuoteWith(str, {"/"})

\* str.replace(old, new) for a one-character old
RECURSIVE Replace(_, _, _)
Replace(str, old, new) ==
    IF str = <<>> THEN <<>>
    ELSE (IF Head(str) = old THEN new ELSE <<Head(str)>>) \o Replace(Tail(str), old, new)

\* encode_url without its second statement
encode_url_noreplace(in_url) == Quote(in_url)

\* encode_url quoting with quote_plus
encode_url_plus(in_url) == Replace(QuotePlus(in_url), "/", <<"%", "2", "F">>)

encode_url(in_url) == Replace(Quote(in_url), "/", <<"%", "2", "F">>)

\* urllib.parse.unquote: %XX becomes the character of code XX, the rest is kept
RECURSIVE Unquote(_)
Unquote(str) ==
    IF str = <<>> THEN <<>>
    ELSE IF Head(str) = "%" /\ Len(str) >= 3 /\ IsHex(str[2]) /\ IsHex(str[3])
              /\ 16 * HexVal(str[2]) + HexVal(str[3]) \in 32..126
         THEN <<Chr(16 * HexVal(str[2]) + HexVal(str[3]))>> \o Unquote(SubSeq(str, 4, Len(str)))
         ELSE <<Head(str)>> \o Unquote(Tail(str))

Contains(str, c) == \E i \in 1..Len(str) : str[i] = c


---------------------------------------------------------------------------
(* The collaborators: libthumbor's CryptoURL and pyperclip's copy *)

\* CryptoURL(key=k).generate(width, height, smart, image_url): an opaque path
\* that is a function of the key and of the four options, and of nothing else
\* (the token is the text of the call's values, written in a fixed order)
Flat(v) == <<v.t, v.n, v.s>>
CryptoGenerate(call) ==
    <<"/", ToString(<<Flat(call.key), Flat(call.width), Flat(call.height),
                      Flat(call.smart), Flat(call.image_url)>>)>>

SignCall(key, w, h, is_smart, image_url) ==
    [key |-> key, width |-> w, height |-> h, smart |-> is_smart, image_url |-> image_url]

---------------------------------------------------------------------------
(* thumbor-url-generator.py *)

\* what a generator function leaves behind: the encoder's result, the calls
\* made to crypto.generate, the URL it logged, its return value, the
\* clipboard, and the exception it raised ("" when it returned)
Outcome(enc, calls, gen, res, clip, err) ==
    [encoded |-> enc, signCall |-> calls, generated |-> gen, result |-> res,
     clipboard |-> clip, error |-> err]

\* the tail of both generator functions: url = url.strip(); if is_copy:
\* copy(url); return url
StripCopyReturn(enc, calls, logged, url, is_copy, clipOk) ==
    IF Truthy(is_copy) /\ ~clipOk
    THEN Outcome(enc, calls, logged, NoneV, NoneV, "PyperclipException")
    ELSE Outcome(enc, calls, logged, StrV(Strip(url.s)),
                 IF Truthy(is_copy) THEN StrV(Strip(url.s)) ELSE NoneV, "")

parse_args(c) ==
    [copy |-> BoolV(c.c), height |-> c.H, smart |-> BoolV(TRUE),
     unsafe |-> BoolV(c.u), width |-> c.W, image_url |-> c.image_url]

generate_unsafe_url(thumbor_base_url, in_image_url, img_width, img_height, is_smart, is_copy, clipOk) ==
    LET encoded_url == StrV(encode_url(in_image_url))
        dims == PyAdd(PyAdd(PyAdd(PyAdd(thumbor_base_url, StrV(<<"/", "u", "n", "s", "a", "f", "e", "/">>)),
                                  img_width), StrV(<<"x">>)), img_height)
        unsafe_url ==
            IF Truthy(is_smart)
            THEN PyAdd(PyAdd(dims, StrV(<<"/", "s", "m", "a", "r", "t", "/">>)), encoded_url)
            ELSE PyAdd(PyAdd(dims, StrV(<<"/">>)), encoded_url)
    IN  IF unsafe_url.t # "str"
        THEN Outcome(encoded_url, <<>>, NoneV, NoneV, NoneV, "TypeError")
        ELSE StripCopyReturn(encoded_url, <<>>, unsafe_url, unsafe_url, is_copy, clipOk)

\* generate_safe_url signing the raw image URL
generate_safe_url_raw(thumbor_base_url, thumbor_key, in_image_url, img_width, img_height, is_smart, is_copy, clipOk) ==
    LET encoded_url == StrV(encode_url(in_image_url))
        call == SignCall(thumbor_key, img_width, img_height, is_smart, StrV(in_image_url))
        safe_url == PyAdd(thumbor_base_url, StrV(CryptoGenerate(call)))
    IN  IF safe_url.t # "str"
        THEN Outcome(encoded_url, <<call>>, NoneV, NoneV, NoneV, "TypeError")
        ELSE StripCopyReturn(encoded_url, <<call>>, StrV(Strip(safe_url.s)), safe_url,
                             is_copy, clipOk)

generate_safe_url(thumbor_base_url, thumbor_key, in_image_url, img_width, img_height, is_smart, is_copy, clipOk) ==
    LET encoded_url == StrV(encode_url(in_image_url))
        call == SignCall(thumbor_key, img_width, img_height, is_smart, encoded_url)
        safe_url == PyAdd(thumbor_base_url, StrV(CryptoGenerate(call)))
    IN  IF safe_url.t # "str"
        THEN Outcome(encoded_url, <<call>>, NoneV, NoneV, NoneV, "TypeError")
        ELSE StripCopyReturn(encoded_url, <<call>>, StrV(Strip(safe_url.s)), safe_url,
                             is_copy, clipOk)

\* __main__, lines 176-189: the resolved options, before the None check
ResolveOpts(a, e) ==
    [width |-> IfNotNone(a.width, e.WIDTH),
     height |-> IfNotNone(a.height, e.HEIGHT),
     smart |-> IfNotNone(a.smart, e.SMART),
     unsafe |-> IfNotNone(a.unsafe, e.UNSAFE),
     cpy |-> IfNotNone(a.copy, e.COPY)]

\* if width is None: width = 0, and the same for height
ZeroIfNone(v) == IF v = NoneV THEN IntV(0) ELSE v

---------------------------------------------------------------------------
(* turl.py *)

THUMBOR_URL ==
    <<"h", "t", "t", "p", "s", ":", "/", "/", "t", "h", "u", "m", "b", "o", "r", ".",
      "s", "u", "d", "a", "c", "o", "d", "e", ".", "c", "o", "m">>

DefaultWidth == 800
DefaultHeight == 0

turl_parse_args(c) ==
    [copy |-> BoolV(c.c), height |-> IfNotNone(c.H, IntV(DefaultHeight)),
     smart |-> BoolV(TRUE), unsafe |-> NoneV,
     width |-> IfNotNone(c.W, IntV(DefaultWidth)), image_url |-> c.image_url]

\* turl.py logs the URL and copies url.strip(); it has no return statement
turl_generate_safe_url(KEY, in_image_url, width, height, smart, is_copy, clipOk) ==
    LET encoded_url == StrV(encode_url(in_image_url))
        call == SignCall(KEY, width, height, smart, encoded_url)
        url == PyAdd(StrV(THUMBOR_URL), StrV(CryptoGenerate(call)))
    IN  IF Truthy(is_copy) /\ ~clipOk
        THEN Outcome(encoded_url, <<call>>, url, NoneV, NoneV, "PyperclipException")
        ELSE Outcome(encoded_url, <<call>>, url, NoneV,
                     IF Truthy(is_copy) THEN StrV(Strip(url.s)) ELSE NoneV, "")

---------------------------------------------------------------------------
(* The inputs of a run *)

ScenarioImage ==
    <<"h", "t", "t", "p", ":", "/", "/", "e", "x", "a", "m", "p", "l", "e", ".",
      "c", "o", "m", "/", "a", " ", "b", ".", "j", "p", "g">>

ScenarioBase ==
    <<"h", "t", "t", "p", "s", ":", "/", "/", "i", "m", "g", ".", "e", "x", "a",
      "m", "p", "l", "e", ".", "c", "o", "m">>

ImageUrls == {ScenarioImage, <<"a", ":", "/", "b">>}
BaseUrls == {NoneV, StrV(ScenarioBase), StrV(<<" ", "h", "/", "t">>)}
Keys == {NoneV, StrV(<<>>), StrV(<<"k">>)}
CliWidths == {NoneV, IntV(0), IntV(300)}
CliHeights == {NoneV, IntV(0), IntV(200)}
EnvWidths == {NoneV, StrV(<<"3", "0", "0">>)}
EnvHeights == {NoneV, StrV(<<"2", "0", "0">>)}
EnvSmarts == {NoneV, StrV(<<"f", "a", "l", "s", "e">>)}
EnvFlags == {NoneV, StrV(<<"t", "r", "u", "e">>)}

CommandLines ==
    [W : CliWidths, H : CliHeights, S : BOOLEAN, u : BOOLEAN, c : BOOLEAN,
     image_url : ImageUrls]

Environments ==
    [THUMBOR_BASE_URL : BaseUrls, THUMBOR_KEY : Keys, WIDTH : EnvWidths,
     HEIGHT : EnvHeights, SMART : EnvSmarts, UNSAFE : EnvFlags, COPY : EnvFlags]

\* turl.py reads THUMBOR_KEY and nothing else, and has no --unsafe flag
TurlCommandLines == { c \in CommandLines : ~c.u }
TurlEnvironments ==
    { e \in Environments :
        /\ e.THUMBOR_BASE_URL = NoneV /\ e.WIDTH = NoneV /\ e.HEIGHT = NoneV
        /\ e.SMART = NoneV /\ e.UNSAFE = NoneV /\ e.COPY = NoneV }

NoArgs ==
    [copy |-> NoneV, height |-> NoneV, smart |-> NoneV, unsafe |-> NoneV,
     width |-> NoneV, image_url |-> <<>>]
NoOpts == [width |-> NoneV, height |-> NoneV, smart |-> NoneV, unsafe |-> NoneV, cpy |-> NoneV]

Blank ==
    /\ args = NoArgs
    /\ opts = NoOpts
    /\ encoded = NoneV
    /\ signCall = <<>>
    /\ generated = NoneV
    /\ result = NoneV
    /\ clipboard = NoneV
    /\ printed = NoneV
    /\ error = ""

Init ==
    /\ \/ /\ script = "generator"
          /\ pc = "parse"
          /\ cli \in CommandLines
          /\ env \in Environments
          /\ envFileOk \in BOOLEAN
       \/ /\ script = "turl"
          /\ pc = "t_import"
          /\ cli \in TurlCommandLines
          /\ env \in TurlEnvironments
          /\ envFileOk = TRUE
    /\ clipboardOk \in BOOLEAN
    /\ Blank

inputs == <<script, cli, env, envFileOk, clipboardOk>>

Fail(err) ==
    /\ pc' = "failed"
    /\ error' = err

\* the effects of a generator function on the run
Apply(o) ==
    /\ encoded' = o.encoded
    /\ signCall' = o.signCall
    /\ generated' = o.generated
    /\ result' = o.result
    /\ clipboard' = o.clipboard
    /\ error' = o.error

---------------------------------------------------------------------------
(* The run of thumbor-url-generator.py *)

\* line 137
ParseArgs ==
    /\ script = "generator" /\ pc = "parse"
    /\ args' = parse_args(cli)
    /\ pc' = "env"
    /\ UNCHANGED <<inputs, opts, encoded, signCall, generated, result, clipboard,
                   printed, error>>

\* lines 145-159: the three assertions
LoadEnv ==
    /\ script = "generator" /\ pc = "env"
    /\ IF envFileOk /\ env.THUMBOR_BASE_URL # NoneV /\ env.THUMBOR_KEY # NoneV
       THEN pc' = "resolve" /\ error' = error
       ELSE Fail("AssertionError")
    /\ UNCHANGED <<inputs, args, opts, encoded, signCall, generated, result,
                   clipboard, printed>>

\* lines 161-189
Resolve ==
    /\ script = "generator" /\ pc = "resolve"
    /\ LET r == ResolveOpts(args, env)
       IN  IF r.width = NoneV /\ r.height = NoneV
           THEN opts' = r /\ Fail("Exception")
           ELSE /\ opts' = [r EXCEPT !.width = ZeroIfNone(r.width),
                                     !.height = ZeroIfNone(r.height)]
                /\ pc' = "generate"
                /\ error' = error
    /\ UNCHANGED <<inputs, args, encoded, signCall, generated, result, clipboard,
                   printed>>

\* lines 198-210, the unsafe branch
GenerateUnsafe ==
    /\ script = "generator" /\ pc = "generate"
    /\ Truthy(opts.unsafe)
    /\ LET o == generate_unsafe_url(env.THUMBOR_BASE_URL, args.image_url, opts.width,
                                    opts.height, opts.smart, opts.cpy, clipboardOk)
       IN  /\ Apply(o)
           /\ pc' = IF o.error = "" THEN "print" ELSE "failed"
    /\ UNCHANGED <<inputs, args, opts, printed>>

\* lines 198-210, the safe branch
GenerateSafe ==
    /\ script = "generator" /\ pc = "generate"
    /\ ~Truthy(opts.unsafe)
    /\ LET o == generate_safe_url(env.THUMBOR_BASE_URL, env.THUMBOR_KEY, args.image_url,
                                  opts.width, opts.height, opts.smart, opts.cpy,
                                  clipboardOk)
       IN  /\ Apply(o)
           /\ pc' = IF o.error = "" THEN "print" ELSE "failed"
    /\ UNCHANGED <<inputs, args, opts, printed>>

UrlLabel == <<"U", "R", "L", ":", " ">>

\* lines 211-212
PrintUrl ==
    /\ script = "generator" /\ pc = "print"
    /\ printed' = StrV(UrlLabel \o result.s)
    /\ pc' = "done"
    /\ UNCHANGED <<inputs, args, opts, encoded, signCall, generated, result,
                   clipboard, error>>

---------------------------------------------------------------------------
(* The run of turl.py *)

\* lines 18-23, run when the module is loaded
TurlImport ==
    /\ script = "turl" /\ pc = "t_import"
    /\ IF env.THUMBOR_KEY # NoneV /\ env.THUMBOR_KEY # StrV(<<>>)
       THEN pc' = "t_parse" /\ error' = error
       ELSE Fail("AssertionError")
    /\ UNCHANGED <<inputs, args, opts, encoded, signCall, generated, result,
                   clipboard, printed>>

\* line 77
TurlParseArgs ==
    /\ script = "turl" /\ pc = "t_parse"
    /\ args' = turl_parse_args(cli)
    /\ pc' = "t_generate"
    /\ UNCHANGED <<inputs, opts, encoded, signCall, generated, result, clipboard,
                   printed, error>>

\* line 79
TurlGenerate ==
    /\ script = "turl" /\ pc = "t_generate"
    /\ LET o == turl_generate_safe_url(env.THUMBOR_KEY, args.image_url, args.width,
                                       args.height, args.smart, args.copy, clipboardOk)
       IN  /\ Apply(o)
           /\ pc' = IF o.error = "" THEN "done" ELSE "failed"
    /\ UNCHANGED <<inputs, args, opts, printed>>

Next ==
    \/ ParseArgs
    \/ LoadEnv
    \/ Resolve
    \/ GenerateUnsafe
    \/ GenerateSafe
    \/ PrintUrl
    \/ TurlImport
    \/ TurlParseArgs
    \/ TurlGenerate

Spec == Init /\ [][Next]_vars

---------------------------------------------------------------------------
(* The encoder alone: encode_url applied to every short image URL *)

MaxLen == 5
EncAlphabet == {"a", ":", "/", " ", "%", "2", "F"}
EncInputs == UNION { [1..k -> EncAlphabet] : k \in 1..MaxLen }

NoEnv ==
    [THUMBOR_BASE_URL |-> NoneV, THUMBOR_KEY |-> NoneV, WIDTH |-> NoneV,
     HEIGHT |-> NoneV, SMART |-> NoneV, UNSAFE |-> NoneV, COPY |-> NoneV]

EncInit ==
    /\ script = "encoder"
    /\ pc = "enc_start"
    /\ \E in_url \in EncInputs :
          cli = [W |-> NoneV, H |-> NoneV, S |-> FALSE, u |-> FALSE, c |-> FALSE,
                 image_url |-> in_url]
    /\ env = NoEnv
    /\ envFileOk = TRUE
    /\ clipboardOk = TRUE
    /\ Blank

EncEncode ==
    /\ script = "encoder" /\ pc = "enc_start"
    /\ encoded' = StrV(encode_url(cli.image_url))
    /\ pc' = "enc_done"
    /\ UNCHANGED <<inputs, args, opts, signCall, generated, result, clipboard,
                   printed, error>>

EncNext == EncEncode

SpecEnc == EncInit /\ [][EncNext]_vars

---------------------------------------------------------------------------
(* Vocabulary of the properties *)

Terminal == pc \in {"done", "failed"}

\* a generator function of thumbor-url-generator.py has been entered
Built == script = "generator" /\ encoded # NoneV

StartsWith(str, p) == Len(p) <= Len(str) /\ SubSeq(str, 1, Len(p)) = p
EndsWith(str, p) ==
    Len(p) <= Len(str) /\ SubSeq(str, Len(str) - Len(p) + 1, Len(str)) = p

Digits == <<"0", "1", "2", "3", "4", "5", "6", "7", "8", "9">>

\* the decimal numeral of a natural number, without leading zeros
RECURSIVE Dec(_)
Dec(k) == IF k < 10 THEN <<Digits[k + 1]>> ELSE Dec(k \div 10) \o <<Digits[(k % 10) + 1]>>

RECURSIVE NumeralValue(_)
NumeralValue(str) ==
    IF str = <<>> THEN 0
    ELSE 10 * NumeralValue(SubSeq(str, 1, Len(str) - 1)) + HexVal(str[Len(str)])

\* the number a width or height stands for: None is absent, i.e. zero
NumOf(v) ==
    CASE v.t = "int" -> v.n
      [] v.t = "str" -> NumeralValue(v.s)
      [] OTHER -> 0

\* the width and height the request resolves to, from the inputs of the run
RequestWidth ==
    IF script = "turl" THEN IfNotNone(cli.W, IntV(DefaultWidth))
    ELSE IfNotNone(cli.W, env.WIDTH)
RequestHeight ==
    IF script = "turl" THEN IfNotNone(cli.H, IntV(DefaultHeight))
    ELSE IfNotNone(cli.H, env.HEIGHT)

NonEmptyStr(v) == v.t = "str" /\ v.s # <<>>

CopyFails == Truthy(opts.cpy) /\ ~clipboardOk

UnsafeSeg == <<"/", "u", "n", "s", "a", "f", "e", "/">>
SmartSeg == <<"/", "s", "m", "a", "r", "t", "/">>
DimSeg == Dec(NumOf(opts.width)) \o <<"x">> \o Dec(NumOf(opts.height))

\* a valid unsafe request has reached generate_unsafe_url, with a base URL
\* free of surrounding whitespace and a clipboard that does not fail
ValidUnsafeBuild ==
    /\ Built
    /\ Truthy(opts.unsafe)
    /\ NonEmptyStr(env.THUMBOR_BASE_URL)
    /\ Strip(env.THUMBOR_BASE_URL.s) = env.THUMBOR_BASE_URL.s
    /\ args.image_url # <<>>
    /\ NumOf(opts.width) + NumOf(opts.height) > 0
    /\ ~CopyFails

---------------------------------------------------------------------------
(* Properties *)

\* C1: for every valid request with unsafe = true the unsafe build returns a
\* string that starts with base_url + "/unsafe/" followed at once by
\* <width>x<height>, both as decimal numerals without leading zeros.
C1_UnsafePrefix ==
    ValidUnsafeBuild =>
        /\ result.t = "str"
        /\ StartsWith(result.s, env.THUMBOR_BASE_URL.s \o UnsafeSeg \o DimSeg)

\* C2: for every valid request with unsafe = true the output has "/smart/"
\* right after the dimension segment and right before the encoded image URL
\* when smart is true, and a single "/" there when smart is false.
C2_SmartSegment ==
    ValidUnsafeBuild =>
        /\ result.t = "str"
        /\ EndsWith(result.s,
                    DimSeg \o (IF Truthy(opts.smart) THEN SmartSeg ELSE <<"/">>)
                        \o encode_url(args.image_url))

\* the call the safe build is to make to the signing function
ExpectedCall(key) ==
    SignCall(key, opts.width, opts.height, opts.smart, StrV(encode_url(args.image_url)))

SafeBuilt ==
    /\ Built
    /\ ~Truthy(opts.unsafe)
    /\ NonEmptyStr(env.THUMBOR_KEY)

EnvFlagValue(v) == v = StrV(<<"t", "r", "u", "e">>)

\* the value the precedence rule gives a flag: the CLI flag when given, else
\* the environment's value when set, else the default
FlagByRule(given, envValue, default) ==
    IF given THEN TRUE ELSE IF envValue # NoneV THEN EnvFlagValue(envValue) ELSE default

DimByRule(cliValue, envValue, default) ==
    IF cliValue # NoneV THEN NumOf(cliValue)
    ELSE IF envValue # NoneV THEN NumOf(envValue) ELSE default

\* C4: each of width, height, smart, unsafe and copy resolves to the CLI
\* flag's value when given, else to the environment's value when set, else
\* to its default (800, 0, true, false, false).
C4_Precedence ==
    (script = "generator" /\ pc \in {"generate", "print", "done"}) =>
        /\ NumOf(opts.width) = DimByRule(cli.W, env.WIDTH, DefaultWidth)
        /\ NumOf(opts.height) = DimByRule(cli.H, env.HEIGHT, DefaultHeight)
        /\ Truthy(opts.smart) = FlagByRule(cli.S, env.SMART, TRUE)
        /\ Truthy(opts.unsafe) = FlagByRule(cli.u, env.UNSAFE, FALSE)
        /\ Truthy(opts.cpy) = FlagByRule(cli.c, env.COPY, FALSE)

\* C5: when width and height both resolve to zero or absent, the run fails
\* before the encoder, the signing function or a generator is invoked, and
\* no URL is printed or copied.
C5_BothZeroFails ==
    (NumOf(RequestWidth) = 0 /\ NumOf(RequestHeight) = 0) =>
        /\ encoded = NoneV
        /\ signCall = <<>>
        /\ generated = NoneV
        /\ clipboard = NoneV
        /\ printed = NoneV
        /\ pc # "done"

\* C6: in safe mode an empty signing key fails the run: no URL is produced,
\* signed or unsigned.
C6_EmptyKeyFails ==
    (~cli.u /\ env.THUMBOR_KEY = StrV(<<>>)) =>
        /\ signCall = <<>>
        /\ generated = NoneV
        /\ result = NoneV
        /\ printed = NoneV
        /\ pc # "done"

\* C7: when copy is requested and the clipboard write fails, the generator
\* still returns the computed URL and the program prints it as "URL: <url>".
C7_ClipboardFailureIsNotFatal ==
    (Built /\ generated # NoneV /\ CopyFails) =>
        /\ pc \in {"print", "done"}
        /\ result = StrV(Strip(generated.s))
        /\ pc = "done" => printed = StrV(UrlLabel \o result.s)

\* C8: for every non-empty image URL containing ':' and '/', the output of
\* encode_url has no '/' and no ':', and percent-decoding it gives the image
\* URL back.
C8_EncodeRoundTrip ==
    (pc = "enc_done" /\ Contains(cli.image_url, ":") /\ Contains(cli.image_url, "/")) =>
        /\ ~Contains(encoded.s, "/")
        /\ ~Contains(encoded.s, ":")
        /\ Unquote(encoded.s) = cli.image_url

\* an image URL with ':', '/' and a literal "%2F" has been encoded
C8_Witness ==
    /\ pc = "enc_done"
    /\ cli.image_url = <<":", "/", "%", "2", "F">>
    /\ encoded = StrV(<<"%", "3", "A", "%", "2", "F", "%", "2", "5", "2", "F">>)

ScenarioUrl20 ==
    <<"h", "t", "t", "p", "s", ":", "/", "/", "i", "m", "g", ".", "e", "x",
      "a", "m", "p", "l", "e", ".", "c", "o", "m", "/", "u", "n", "s", "a",
      "f", "e", "/", "3", "0", "0", "x", "2", "0", "0", "/", "s", "m", "a",
      "r", "t", "/", "h", "t", "t", "p", "%", "3", "A", "%", "2", "F", "%",
      "2", "F", "e", "x", "a", "m", "p", "l", "e", ".", "c", "o", "m", "%",
      "2", "F", "a", "%", "2", "0", "b", ".", "j", "p", "g">>

ScenarioUrl2520 ==
    <<"h", "t", "t", "p", "s", ":", "/", "/", "i", "m", "g", ".", "e", "x",
      "a", "m", "p", "l", "e", ".", "c", "o", "m", "/", "u", "n", "s", "a",
      "f", "e", "/", "3", "0", "0", "x", "2", "0", "0", "/", "s", "m", "a",
      "r", "t", "/", "h", "t", "t", "p", "%", "3", "A", "%", "2", "F", "%",
      "2", "F", "e", "x", "a", "m", "p", "l", "e", ".", "c", "o", "m", "%",
      "2", "F", "a", "%", "2", "5", "2", "0", "b", ".", "j", "p", "g">>

\* the scenario's request has reached generate_unsafe_url
ScenarioBuilt ==
    /\ Built
    /\ Truthy(opts.unsafe)
    /\ Truthy(opts.smart)
    /\ args.image_url = ScenarioImage
    /\ env.THUMBOR_BASE_URL = StrV(ScenarioBase)
    /\ NumOf(opts.width) = 300
    /\ NumOf(opts.height) = 200

C10_KeyNotNeededWhenUnsafe ==
    (/\ script = "generator"
     /\ Terminal
     /\ cli.u
     /\ envFileOk
     /\ NonEmptyStr(env.THUMBOR_BASE_URL)
     /\ NumOf(RequestWidth) + NumOf(RequestHeight) > 0
     /\ env.THUMBOR_KEY = NoneV
     /\ ~(cli.c /\ ~clipboardOk)) =>
        /\ pc = "done"
        /\ printed.t = "str"

===========================================================================
